---- MODULE Spec2Model ----
(***************************************************************************)
(* Model of src/app.js, the inventory application: the collection          *)
(* state.items, the edit mode state.editingId, the blob kept in            *)
(* localStorage under STORAGE_KEY, the form's error and hint lines and the *)
(* statistics line, with one action per event handler.                     *)
(*                                                                         *)
(* Representation.                                                          *)
(*  - A JavaScript number x is the integer 1000 * x (fixed point, three    *)
(*    decimals); NaN is a value of its own.  Thou(k) is the whole number k. *)
(*  - A JavaScript string is a sequence of one-character strings; the one  *)
(*    whitespace character of the model is " ".                            *)
(*  - A JavaScript value read from JSON is a record [t, n, s] (undefined,  *)
(*    null, number, NaN, string), an object is [t |-> "object", f |-> the  *)
(*    record of its nine properties], an array is [t |-> "array", e |-> the*)
(*    sequence of its elements].                                           *)
(*  - An item of state.items is a record of its nine properties, the text  *)
(*    ones as strings and the numeric ones as numbers.                     *)
(***************************************************************************)
EXTENDS Integers, Sequences, FiniteSets, TLC

VARIABLES
    items,      \* state.items
    editingId,  \* state.editingId: Null or Str(id)
    stored,     \* localStorage[STORAGE_KEY]
    formError,  \* elements.formError.textContent
    formHint,   \* elements.formHint.textContent
    stats,      \* the four statistics renderStats wrote
    now,        \* the value Date.now() returns, in milliseconds
    nextId,     \* how many ids createId() has handed out
    wrote,      \* whether the last handler called localStorage.setItem
    steps,      \* handler runs so far
    last,       \* the last handler run and the branch it took
    arg,        \* input of the pure function under check (SpecValidate)
    ret         \* its result

vars == <<items, editingId, stored, formError, formHint, stats, now, nextId, wrote, steps, last, arg, ret>>

(***************************************************************************)
(* Bounds of the model.                                                    *)
(***************************************************************************)
MaxSteps == 2       \* handler runs explored after init()
MaxTime == 2        \* the clock stops advancing here

(***************************************************************************)
(* Program constants.                                                      *)
(***************************************************************************)
LimitName == 80
LimitSku == 30
LimitCategory == 40

(***************************************************************************)
(* JavaScript values.                                                      *)
(***************************************************************************)
Undefined == [t |-> "undefined", n |-> 0, s |-> <<>>]
Null == [t |-> "null", n |-> 0, s |-> <<>>]
NaN == [t |-> "NaN", n |-> 0, s |-> <<>>]
Num(x) == [t |-> "number", n |-> x, s |-> <<>>]
Str(s) == [t |-> "string", n |-> 0, s |-> s]
Obj(f) == [t |-> "object", f |-> f]
Arr(e) == [t |-> "array", e |-> e]

Thou(k) == k * 1000

Min(a, b) == IF a < b THEN a ELSE b

\* Rep(c, n): the string of n characters c.
Rep(c, n) == [i \in 1..n |-> c]

(***************************************************************************)
(* Text helpers.                                                           *)
(***************************************************************************)
\* The positions of s that hold something else than whitespace
Inked(s) == {i \in 1..Len(s) : s[i] # " "}

TrimStart(s) ==
    IF Inked(s) = {} THEN <<>>
    ELSE SubSeq(s, CHOOSE i \in Inked(s) : \A j \in Inked(s) : i <= j, Len(s))

TrimEnd(s) ==
    IF Inked(s) = {} THEN <<>>
    ELSE SubSeq(s, 1, CHOOSE i \in Inked(s) : \A j \in Inked(s) : j <= i)

\* String.prototype.trim
Trim(s) == TrimEnd(TrimStart(s))

\* replace(/\s+/g, " "): every run of whitespace becomes one space.
CollapseSpaces(s) ==
    LET marked == [i \in 1..Len(s) |->
                      [c |-> s[i], run |-> i > 1 /\ s[i] = " " /\ s[i - 1] = " "]]
        kept == SelectSeq(marked, LAMBDA m : ~m.run)
    IN  [i \in 1..Len(kept) |-> kept[i].c]

\* String(value ?? ""): the text inputs of the model are strings, null or
\* undefined.
ToText(value) == IF value.t = "string" THEN value.s ELSE <<>>

normalizeText(value) == CollapseSpaces(Trim(ToText(value)))

LowerLetters ==
    <<"a", "b", "c", "d", "e", "f", "g", "h", "i", "j", "k", "l", "m",
      "n", "o", "p", "q", "r", "s", "t", "u", "v", "w", "x", "y", "z">>
UpperLetters ==
    <<"A", "B", "C", "D", "E", "F", "G", "H", "I", "J", "K", "L", "M",
      "N", "O", "P", "Q", "R", "S", "T", "U", "V", "W", "X", "Y", "Z">>

\* The place of c in a sequence of characters, 0 when it is not there.
IndexIn(c, letters) ==
    IF \E k \in 1..Len(letters) : letters[k] = c
    THEN CHOOSE k \in 1..Len(letters) : letters[k] = c
    ELSE 0

UpperChar(c) ==
    IF IndexIn(c, LowerLetters) # 0 THEN UpperLetters[IndexIn(c, LowerLetters)] ELSE c

LowerChar(c) ==
    IF IndexIn(c, UpperLetters) # 0 THEN LowerLetters[IndexIn(c, UpperLetters)] ELSE c

toUpperCase(s) == [i \in 1..Len(s) |-> UpperChar(s[i])]

toLowerCase(s) == [i \in 1..Len(s) |-> LowerChar(s[i])]

\* s.slice(0, n)
Slice(s, n) == SubSeq(s, 1, Min(n, Len(s)))

(***************************************************************************)
(* Number helpers.                                                         *)
(***************************************************************************)
\* Number(value).  The string inputs of the model hold no numeral, so a
\* string converts to 0 when it is blank and to NaN otherwise.
ToNumber(value) ==
    CASE value.t = "number" -> value
      [] value.t = "null" -> Num(0)
      [] value.t = "string" -> IF Trim(value.s) = <<>> THEN Num(0) ELSE NaN
      [] OTHER -> NaN

isNaN(v) == v.t = "NaN"

\* Number.isInteger
isInteger(v) == v.t = "number" /\ v.n % 1000 = 0

\* Math.floor
Floor(x) == (x \div 1000) * 1000

\* Number(x.toFixed(2)) for x >= 0; the inputs of the model hold no value
\* that lies halfway between two hundredths.
ToFixed2(x) == ((x + 5) \div 10) * 10

sanitizeIntegerNoFloor(value) ==
    LET parsed == ToNumber(value)
    IN  IF isNaN(parsed) \/ parsed.n < 0 THEN 0 ELSE parsed.n

sanitizeInteger(value) ==
    LET parsed == ToNumber(value)
    IN  IF isNaN(parsed) \/ parsed.n < 0 THEN 0 ELSE Floor(parsed.n)

sanitizePrice(value) ==
    LET parsed == ToNumber(value)
    IN  IF isNaN(parsed) \/ parsed.n < 0 THEN 0 ELSE ToFixed2(parsed.n)

\* Number(value) || fallback
NumberOr(value, fallback) ==
    LET parsed == ToNumber(value)
    IN  IF isNaN(parsed) \/ parsed.n = 0 THEN fallback ELSE parsed.n

(***************************************************************************)
(* Clock and id generator.                                                 *)
(***************************************************************************)
\* Date.now() when the clock shows t
DateNow(t) == Thou(t)

\* The k-th id createId() hands out; no stored id has this form.
createId(k) == <<"id-", ToString(k)>>

(***************************************************************************)
(* Persistence: sanitizeLoadedItems, loadItems, saveItems.                 *)
(***************************************************************************)
\* The properties of an element that has none of them (a primitive).
NoFields ==
    [id |-> Undefined, name |-> Undefined, sku |-> Undefined,
     category |-> Undefined, quantity |-> Undefined, minStock |-> Undefined,
     price |-> Undefined, createdAt |-> Undefined, updatedAt |-> Undefined]

FieldsOf(element) == IF element.t = "object" THEN element.f ELSE NoFields

\* value ?? other picks other exactly for these
Nullish(value) == value.t \in {"null", "undefined"}

\* Reading a property of null or undefined raises a TypeError.
ElementThrows(element) == Nullish(element)

\* How many ids createId() handed out for the elements before the i-th.
FreshBefore(e, i) ==
    Cardinality({j \in 1..(i - 1) : Nullish(FieldsOf(e[j]).id)})

\* The object the map callback of sanitizeLoadedItems builds for one
\* element, at clock t, createId() having been called k times before.
SanitizeItem(element, t, k) ==
    LET item == FieldsOf(element)
    IN  [id |-> IF Nullish(item.id) THEN createId(k + 1) ELSE ToText(item.id),
         name |-> Slice(normalizeText(item.name), LimitName),
         sku |-> Slice(toUpperCase(normalizeText(item.sku)), LimitSku),
         category |-> Slice(normalizeText(item.category), LimitCategory),
         quantity |-> sanitizeInteger(item.quantity),
         minStock |-> sanitizeInteger(item.minStock),
         price |-> sanitizePrice(item.price),
         createdAt |-> NumberOr(item.createdAt, DateNow(t)),
         updatedAt |-> NumberOr(item.updatedAt, DateNow(t))]

\* The filter callback of sanitizeLoadedItems.
KeepItem(item) == item.name # <<>> /\ item.sku # <<>> /\ item.category # <<>>

\* Whether sanitizeLoadedItems(value) raises.
SanitizeThrows(value) ==
    value.t = "array" /\ \E i \in 1..Len(value.e) : ElementThrows(value.e[i])

\* sanitizeLoadedItems(value) when it does not raise.
sanitizeLoadedItems(value, t, k) ==
    IF value.t # "array" THEN <<>>
    ELSE SelectSeq([i \in 1..Len(value.e) |->
                        SanitizeItem(value.e[i], t, k + FreshBefore(value.e, i))],
                   KeepItem)

\* The createId() calls of sanitizeLoadedItems(value): one per element with
\* no id, up to the element that raises.
SanitizeIdCalls(value) ==
    IF value.t # "array" THEN 0
    ELSE LET bad == {i \in 1..Len(value.e) : ElementThrows(value.e[i])}
             stop == IF bad = {} THEN Len(value.e) + 1
                     ELSE CHOOSE i \in bad : \A j \in bad : i <= j
         IN  FreshBefore(value.e, stop)

\* localStorage holds no entry, a text JSON.parse rejects, or the text of
\* the JSON value v.
Absent == [t |-> "absent"]
Garbage == [t |-> "garbage"]
Json(v) == [t |-> "json", v |-> v]

\* state.items after loadItems() on the blob raw.
loadItemsSkipsRaise(raw, t, k) ==
    IF raw.t \in {"absent", "garbage"} THEN <<>>
    ELSE sanitizeLoadedItems(raw.v, t, k)

loadItems(raw, t, k) ==
    IF raw.t = "absent" THEN <<>>
    ELSE IF raw.t = "garbage" THEN <<>>
    ELSE IF SanitizeThrows(raw.v) THEN <<>>
    ELSE sanitizeLoadedItems(raw.v, t, k)

LoadIdCalls(raw) == IF raw.t = "json" THEN SanitizeIdCalls(raw.v) ELSE 0

\* The JavaScript object an item is.
ItemObject(item) ==
    Obj([id |-> Str(item.id), name |-> Str(item.name), sku |-> Str(item.sku),
         category |-> Str(item.category), quantity |-> Num(item.quantity),
         minStock |-> Num(item.minStock), price |-> Num(item.price),
         createdAt |-> Num(item.createdAt), updatedAt |-> Num(item.updatedAt)])

\* The JavaScript array a collection is.
AsValue(its) == Arr([i \in 1..Len(its) |-> ItemObject(its[i])])

\* JSON.stringify(its), as the value JSON.parse reads back from it.  Every
\* number of an item is finite, so none is written as null, and no property
\* is undefined, so none is left out.
Stringify(its) == AsValue(its)

saveItemsButLast(its) == Json(Stringify(SubSeq(its, 1, Len(its) - 1)))

\* What saveItems() leaves in localStorage.
saveItems(its) == Json(Stringify(its))

(***************************************************************************)
(* Form handling: getFormPayload, validatePayload, isDuplicatedSku.        *)
(***************************************************************************)
\* A form is the record of the six fields' values: the text fields as
\* strings, the numeric fields as the value whose Number() the payload gets.
getFormPayload(form) ==
    [name |-> normalizeText(form.name),
     sku |-> toUpperCase(normalizeText(form.sku)),
     category |-> normalizeText(form.category),
     quantity |-> ToNumber(form.quantity),
     minStock |-> ToNumber(form.minStock),
     price |-> ToNumber(form.price)]

MsgRequired == "Completa todos los campos requeridos."
MsgNameLength == "El nombre no puede exceder 80 caracteres."
MsgSkuLength == "El SKU no puede exceder 30 caracteres."
MsgCategoryLength == "La categoria no puede exceder 40 caracteres."
MsgNumeric == "Cantidad, stock minimo y precio deben ser valores numericos."
MsgInteger == "Cantidad y stock minimo deben ser numeros enteros."
MsgNegative == "No se permiten valores negativos."
MsgDuplicatedSku == "El SKU ya existe. Usa un valor diferente."
HintUpdated == "Producto actualizado correctamente."
HintCreated == "Producto registrado correctamente."
HintEditing == "Modo edicion activo."
HintRemoved == "Producto eliminado."

validatePayloadNoSign(payload) ==
    IF payload.name = <<>> \/ payload.sku = <<>> \/ payload.category = <<>>
    THEN MsgRequired
    ELSE IF Len(payload.name) > LimitName THEN MsgNameLength
    ELSE IF Len(payload.sku) > LimitSku THEN MsgSkuLength
    ELSE IF Len(payload.category) > LimitCategory THEN MsgCategoryLength
    ELSE IF isNaN(payload.quantity) \/ isNaN(payload.minStock) \/ isNaN(payload.price)
    THEN MsgNumeric
    ELSE IF ~isInteger(payload.quantity) \/ ~isInteger(payload.minStock)
    THEN MsgInteger
    ELSE ""

validatePayloadNumericFirst(payload) ==
    IF isNaN(payload.quantity) \/ isNaN(payload.minStock) \/ isNaN(payload.price)
    THEN MsgNumeric
    ELSE IF payload.name = <<>> \/ payload.sku = <<>> \/ payload.category = <<>>
    THEN MsgRequired
    ELSE IF Len(payload.name) > LimitName THEN MsgNameLength
    ELSE IF Len(payload.sku) > LimitSku THEN MsgSkuLength
    ELSE IF Len(payload.category) > LimitCategory THEN MsgCategoryLength
    ELSE IF ~isInteger(payload.quantity) \/ ~isInteger(payload.minStock)
    THEN MsgInteger
    ELSE IF payload.quantity.n < 0 \/ payload.minStock.n < 0 \/ payload.price.n < 0
    THEN MsgNegative
    ELSE ""

validatePayload(payload) ==
    IF payload.name = <<>> \/ payload.sku = <<>> \/ payload.category = <<>>
    THEN MsgRequired
    ELSE IF Len(payload.name) > LimitName THEN MsgNameLength
    ELSE IF Len(payload.sku) > LimitSku THEN MsgSkuLength
    ELSE IF Len(payload.category) > LimitCategory THEN MsgCategoryLength
    ELSE IF isNaN(payload.quantity) \/ isNaN(payload.minStock) \/ isNaN(payload.price)
    THEN MsgNumeric
    ELSE IF ~isInteger(payload.quantity) \/ ~isInteger(payload.minStock)
    THEN MsgInteger
    ELSE IF payload.quantity.n < 0 \/ payload.minStock.n < 0 \/ payload.price.n < 0
    THEN MsgNegative
    ELSE ""

\* id === eid, for a string id and eid null or a string
StrictEq(id, eid) == eid.t = "string" /\ eid.s = id

\* Boolean(value), for null or a string
Truthy(value) == value.t = "string" /\ value.s # <<>>

isDuplicatedSku(its, sku, eid) ==
    \E i \in 1..Len(its) : its[i].sku = sku /\ ~StrictEq(its[i].id, eid)

(***************************************************************************)
(* The collection: createItem, updateItem, removeItem, adjustQuantity.     *)
(***************************************************************************)
\* Array.prototype.findIndex / find by id: the first index, 0 when none.
FindIndex(its, id) ==
    IF \E i \in 1..Len(its) : its[i].id = id
    THEN CHOOSE i \in 1..Len(its) :
            its[i].id = id /\ \A j \in 1..(i - 1) : its[j].id # id
    ELSE 0

createItem(its, payload, t, k) ==
    Append(its, [id |-> createId(k + 1),
                 name |-> payload.name, sku |-> payload.sku,
                 category |-> payload.category,
                 quantity |-> payload.quantity.n,
                 minStock |-> payload.minStock.n,
                 price |-> payload.price.n,
                 createdAt |-> DateNow(t), updatedAt |-> DateNow(t)])

updateItem(its, eid, payload, t) ==
    LET index == IF eid.t = "string" THEN FindIndex(its, eid.s) ELSE 0
    IN  IF index = 0 THEN its
        ELSE [its EXCEPT ![index] =
                [@ EXCEPT !.name = payload.name, !.sku = payload.sku,
                          !.category = payload.category,
                          !.quantity = payload.quantity.n,
                          !.minStock = payload.minStock.n,
                          !.price = payload.price.n,
                          !.updatedAt = DateNow(t)]]

\* state.items.filter((entry) => entry.id !== id)
WithoutId(its, id) == SelectSeq(its, LAMBDA entry : entry.id # id)

\* The two early returns of adjustQuantity(id, diff): no item has the id, or
\* the quantity would go below 0.
adjustReturnsEarlyNoFloor(its, id, diff) == FindIndex(its, id) = 0

adjustReturnsEarly(its, id, diff) ==
    \/ FindIndex(its, id) = 0
    \/ its[FindIndex(its, id)].quantity + diff < 0

\* state.items after adjustQuantity(id, diff) at clock t.
adjustQuantity(its, id, diff, t) ==
    IF adjustReturnsEarly(its, id, diff) THEN its
    ELSE [its EXCEPT ![FindIndex(its, id)] =
            [@ EXCEPT !.quantity = @ + diff, !.updatedAt = DateNow(t)]]

(***************************************************************************)
(* Statistics: getItemStatus, renderStats.                                 *)
(***************************************************************************)
getItemStatusStrict(item) == IF item.quantity < item.minStock THEN "low" ELSE "ok"

getItemStatus(item) == IF item.quantity <= item.minStock THEN "low" ELSE "ok"

\* The product of two numbers
Times(a, b) == (a * b) \div 1000

\* reduce((sum, item) => sum + item.quantity, 0)
RECURSIVE SumQuantity(_)
SumQuantity(its) ==
    IF its = <<>> THEN 0 ELSE Head(its).quantity + SumQuantity(Tail(its))

\* reduce((sum, item) => sum + item.quantity * item.price, 0)
RECURSIVE SumValue(_)
SumValue(its) ==
    IF its = <<>> THEN 0
    ELSE Times(Head(its).quantity, Head(its).price) + SumValue(Tail(its))

\* What renderStats() computes from state.items.
renderStats(its) ==
    [totalProducts |-> Len(its),
     totalUnits |-> SumQuantity(its),
     lowStock |-> Len(SelectSeq(its, LAMBDA item : getItemStatus(item) = "low")),
     totalValue |-> SumValue(its)]

(***************************************************************************)
(* Inputs.                                                                 *)
(***************************************************************************)
TextWidget == <<"W", "i", "d", "g", "e", "t">>
TextNut == <<"N", "u", "t">>
TextCap == <<"C", "a", "p">>
TextTools == <<"T", "o", "o", "l", "s">>
TextHardware == <<"H", "a", "r", "d", "w", "a", "r", "e">>
TextBoltSet == <<" ", "B", "o", "l", "t", " ", " ", "s", "e", "t", " ">>
\* A sku one character longer than LimitSku whose LimitSku-th character is
\* a space.
TextLongSku == Rep("A", LimitSku - 1) \o <<" ", "B">>

RawItem(id, name, sku, category, quantity, minStock, price, createdAt, updatedAt) ==
    Obj([id |-> id, name |-> name, sku |-> sku, category |-> category,
         quantity |-> quantity, minStock |-> minStock, price |-> price,
         createdAt |-> createdAt, updatedAt |-> updatedAt])

\* {name:" Bolt  set ", sku:"b1", category:"Hardware", quantity:-3,
\*  minStock:"x", price:-2.5}
RawBolt ==
    RawItem(Undefined, Str(TextBoltSet), Str(<<"b", "1">>), Str(TextHardware),
            Num(Thou(0 - 3)), Str(<<"x">>), Num(0 - 2500), Undefined, Undefined)
RawWidgetX ==
    RawItem(Str(<<"x">>), Str(TextWidget), Str(<<"A", "-", "1">>), Str(TextTools),
            Num(Thou(5)), Num(Thou(10)), Num(2500), Num(Thou(1)), Num(Thou(1)))
RawNutX ==
    RawItem(Str(<<"x">>), Str(TextNut), Str(<<"B", "1">>), Str(TextTools),
            Num(Thou(1)), Num(Thou(0)), Num(Thou(1)), Num(Thou(1)), Num(Thou(1)))
RawNutY ==
    RawItem(Str(<<"y">>), Str(TextNut), Str(<<"a", "-", "1">>), Str(TextTools),
            Num(Thou(1)), Num(Thou(0)), Num(Thou(1)), Num(Thou(1)), Num(Thou(1)))
RawCapNoId ==
    RawItem(Str(<<>>), Str(TextCap), Str(<<"C", "1">>), Str(TextTools),
            Num(Thou(2)), Num(Thou(1)), Num(Thou(3)), Num(Thou(2)), Num(Thou(1)))
RawLongSku ==
    RawItem(Str(<<"z">>), Str(TextCap), Str(TextLongSku), Str(TextTools),
            Num(2500), Null, Num(9999), Null, Num(Thou(1)))
RawNoName ==
    RawItem(Str(<<"n">>), Str(<<" ">>), Str(<<"D", "1">>), Str(TextTools),
            Num(Thou(1)), Num(Thou(1)), Num(Thou(1)), Num(Thou(1)), Num(Thou(1)))

\* The blobs init() may find in localStorage.
StoredInputs ==
    {Absent, Garbage, Json(Null), Json(Arr(<<>>)),
     Json(Arr(<<RawBolt>>)),
     Json(Arr(<<RawWidgetX>>)),
     Json(Arr(<<RawWidgetX, RawNutX>>)),
     Json(Arr(<<RawWidgetX, RawNutY>>)),
     Json(Arr(<<RawCapNoId, RawNutY>>)),
     Json(Arr(<<RawLongSku>>)),
     Json(Arr(<<RawNoName, RawBolt>>)),
     Json(Arr(<<RawWidgetX, Null>>)),
     Json(Arr(<<Num(Thou(5)), RawNutY>>))}

Form(name, sku, category, quantity, minStock, price) ==
    [name |-> Str(name), sku |-> Str(sku), category |-> Str(category),
     quantity |-> quantity, minStock |-> minStock, price |-> price]

\* {name:"Widget", sku:"wd-1", category:"Tools", quantity:5, minStock:10,
\*  price:9.999}
FormWidget ==
    Form(<<" ">> \o TextWidget, <<"w", "d", "-", "1">>, TextTools,
         Num(Thou(5)), Num(Thou(10)), Num(9999))

\* The forms a submit may find in the main specification.
FormInputs ==
    {FormWidget,
     Form(TextWidget, <<"A", "-", "1">>, TextTools, Num(Thou(5)), Num(Thou(10)), Num(2500)),
     Form(TextWidget, <<"a", "-", "1">>, TextTools, Num(Thou(5)), Num(Thou(10)), Num(2500)),
     Form(TextNut, <<"b", "1">>, TextTools, Num(Thou(0)), Num(Thou(0)), Num(Thou(1))),
     Form(<<" ", " ">>, <<"b", "1">>, TextTools, Num(Thou(1)), Num(Thou(0)), Num(Thou(1))),
     Form(TextNut, <<"b", "1">>, TextTools, Str(<<"x">>), Num(Thou(0)), Num(0 - 2500)),
     Form(TextNut, <<"b", "1">>, TextTools, Num(2500), Num(Thou(0)), Num(Thou(1))),
     Form(TextNut, <<"b", "1">>, TextTools, Num(Thou(1)), Num(Thou(0)), Num(0 - 2500))}

\* The diffs adjustQuantity is tried with; the table's buttons pass 1 and -1.
Deltas == {Thou(0 - 100), Thou(0 - 1), Thou(1)}

\* The ids a click may carry: those of the rows, and one no row has.
ClickIds == {items[i].id : i \in 1..Len(items)} \cup {<<"gone">>}

(***************************************************************************)
(* The main specification: init() and the event handlers.                  *)
(***************************************************************************)
Init ==
    /\ stored \in StoredInputs
    /\ now = 1
    /\ items = loadItems(stored, now, 0)
    /\ nextId = LoadIdCalls(stored)
    /\ editingId = Null
    /\ formError = ""
    /\ formHint = ""
    /\ stats = renderStats(items)
    /\ wrote = FALSE
    /\ steps = 0
    /\ last = "init"
    /\ arg = <<>>
    /\ ret = <<>>

\* The clock advances between two handlers.
Tick ==
    /\ now < MaxTime
    /\ now' = now + 1
    /\ UNCHANGED <<items, editingId, stored, formError, formHint, stats,
                   nextId, wrote, steps, last, arg, ret>>

Step == steps < MaxSteps /\ steps' = steps + 1 /\ UNCHANGED <<now, arg, ret>>

\* handleSubmit with the form's fields holding form
HandleSubmit(form) ==
    LET payload == getFormPayload(form)
        validationError == validatePayload(payload)
        wasEditing == Truthy(editingId)
    IN  /\ Step
        /\ IF validationError # ""
           THEN /\ formError' = validationError
                /\ formHint' = ""
                /\ wrote' = FALSE
                /\ last' = "submit: invalid"
                /\ UNCHANGED <<items, editingId, stored, stats, nextId>>
           ELSE IF isDuplicatedSku(items, payload.sku, editingId)
           THEN /\ formError' = MsgDuplicatedSku
                /\ formHint' = ""
                /\ wrote' = FALSE
                /\ last' = "submit: duplicated sku"
                /\ UNCHANGED <<items, editingId, stored, stats, nextId>>
           ELSE /\ items' = IF wasEditing
                            THEN updateItem(items, editingId, payload, now)
                            ELSE createItem(items, payload, now, nextId)
                /\ nextId' = IF wasEditing THEN nextId ELSE nextId + 1
                /\ stored' = saveItems(items')
                /\ wrote' = TRUE
                /\ stats' = renderStats(items')
                /\ editingId' = Null
                /\ formError' = ""
                /\ formHint' = IF wasEditing THEN HintUpdated ELSE HintCreated
                /\ last' = IF wasEditing THEN "submit: updateItem"
                                         ELSE "submit: createItem"

\* The click on "Cancelar": resetForm({ clearHint: true })
CancelEdit ==
    /\ Step
    /\ editingId' = Null
    /\ formError' = ""
    /\ formHint' = ""
    /\ wrote' = FALSE
    /\ last' = "cancel"
    /\ UNCHANGED <<items, stored, stats, nextId>>

\* handleTableClick, action "edit": startEdit(item)
StartEdit(id) ==
    LET index == FindIndex(items, id)
    IN  /\ Step
        /\ wrote' = FALSE
        /\ UNCHANGED <<items, stored, stats, nextId>>
        /\ IF index = 0
           THEN /\ last' = "click: no item"
                /\ UNCHANGED <<editingId, formError, formHint>>
           ELSE /\ last' = "startEdit"
                /\ editingId' = Str(items[index].id)
                /\ formError' = ""
                /\ formHint' = HintEditing

\* handleTableClick, action "delete": removeItem(id), window.confirm
\* answering confirmed.  The hint's text is kept without the item's name.
RemoveItem(id, confirmed) ==
    LET index == FindIndex(items, id)
    IN  /\ Step
        /\ UNCHANGED nextId
        /\ IF index = 0 \/ ~confirmed
           THEN /\ wrote' = FALSE
                /\ last' = IF index = 0 THEN "click: no item"
                                        ELSE "removeItem: declined"
                /\ UNCHANGED <<items, editingId, stored, stats, formError, formHint>>
           ELSE /\ last' = "removeItem"
                /\ items' = WithoutId(items, id)
                /\ stored' = saveItems(items')
                /\ wrote' = TRUE
                /\ stats' = renderStats(items')
                /\ IF StrictEq(id, editingId)
                   THEN editingId' = Null /\ formError' = ""
                   ELSE UNCHANGED <<editingId, formError>>
                /\ formHint' = HintRemoved

\* adjustQuantity(id, diff); handleTableClick calls it for the actions
\* "increase" and "decrease".
AdjustQuantity(id, diff) ==
    /\ Step
    /\ UNCHANGED <<editingId, formError, formHint, nextId>>
    /\ IF adjustReturnsEarly(items, id, diff)
       THEN /\ wrote' = FALSE
            /\ last' = IF FindIndex(items, id) = 0 THEN "click: no item"
                                                   ELSE "adjustQuantity: below 0"
            /\ UNCHANGED <<items, stored, stats>>
       ELSE /\ last' = "adjustQuantity"
            /\ items' = adjustQuantity(items, id, diff, now)
            /\ stored' = saveItems(items')
            /\ wrote' = TRUE
            /\ stats' = renderStats(items')

Next ==
    \/ Tick
    \/ \E form \in FormInputs : HandleSubmit(form)
    \/ CancelEdit
    \/ \E id \in ClickIds : StartEdit(id)
    \/ \E id \in ClickIds, confirmed \in BOOLEAN : RemoveItem(id, confirmed)
    \/ \E id \in ClickIds, diff \in Deltas : AdjustQuantity(id, diff)

Spec == Init /\ [][Next]_vars

(***************************************************************************)
(* The specification of validatePayload alone: a form is drawn, and        *)
(* Validate applies getFormPayload and validatePayload to it.              *)
(***************************************************************************)
ValidateInputs ==
    {Form(name, sku, category, quantity, minStock, price) :
        name \in {<<>>, <<" ">>, TextWidget, Rep("a", LimitName + 1)},
        sku \in {<<>>, <<"w", "d", "-", "1">>, Rep("a", LimitSku + 1)},
        category \in {<<>>, TextTools, Rep("a", LimitCategory + 1)},
        quantity \in {Str(<<"x">>), Num(2500), Num(Thou(0 - 1)), Num(Thou(5))},
        minStock \in {Str(<<"x">>), Num(0 - 2500), Num(Thou(10))},
        price \in {Str(<<"x">>), Num(0 - 2500), Num(9999)}}

InitValidate ==
    /\ arg \in ValidateInputs
    /\ ret = [done |-> FALSE, msg |-> ""]
    /\ stored = Absent
    /\ now = 1
    /\ items = <<>>
    /\ nextId = 0
    /\ editingId = Null
    /\ formError = ""
    /\ formHint = ""
    /\ stats = renderStats(items)
    /\ wrote = FALSE
    /\ steps = 0
    /\ last = "init"

Validate ==
    /\ ~ret.done
    /\ ret' = [done |-> TRUE, msg |-> validatePayload(getFormPayload(arg))]
    /\ UNCHANGED <<items, editingId, stored, formError, formHint, stats, now,
                   nextId, wrote, steps, last, arg>>

NextValidate == Validate

SpecValidate == InitValidate /\ [][NextValidate]_vars

(***************************************************************************)
(* The table view.  state.filters is held in arg and the rows that         *)
(* renderTable() draws, in order, in ret.                                  *)
(***************************************************************************)

\* String.prototype.includes
includes(text, query) ==
    \E start \in 0..(Len(text) - Len(query)) :
        SubSeq(text, start + 1, start + Len(query)) = query

\* The order of the characters under the default collation: white space,
\* punctuation, digits, then letters
Collation ==
    <<" ", "-", "0", "1", "2", "3", "4", "5", "6", "7", "8", "9">> \o LowerLetters

CharRank(c) == IndexIn(LowerChar(c), Collation)

SameAt(c, d, strength) ==
    IF strength = "primary" THEN CharRank(c) = CharRank(d) ELSE c = d

\* The first position where two strings differ at the given strength, 0 when
\* they have none within the shorter of the two.
FirstDifference(a, b, strength) ==
    LET differ == {k \in 1..Min(Len(a), Len(b)) : ~SameAt(a[k], b[k], strength)}
    IN  IF differ = {} THEN 0 ELSE CHOOSE k \in differ : \A j \in differ : k <= j

\* String.prototype.localeCompare: letters first, case only to break a tie,
\* the lower-case letter before the upper-case one
localeCompare(a, b) ==
    LET p == FirstDifference(a, b, "primary")
        q == FirstDifference(a, b, "tertiary")
    IN  IF p # 0 THEN (IF CharRank(a[p]) < CharRank(b[p]) THEN -1 ELSE 1)
        ELSE IF Len(a) # Len(b) THEN (IF Len(a) < Len(b) THEN -1 ELSE 1)
        ELSE IF q # 0 THEN (IF LowerChar(a[q]) = a[q] THEN -1 ELSE 1)
        ELSE 0

\* One step of a stable sort: the item goes before the first row that
\* compares greater than it.
InsertByName(rows, item) ==
    LET greater == {k \in 1..Len(rows) : localeCompare(rows[k].name, item.name) > 0}
        at == IF greater = {} THEN Len(rows) + 1
              ELSE CHOOSE k \in greater : \A j \in greater : k <= j
    IN  SubSeq(rows, 1, at - 1) \o <<item>> \o SubSeq(rows, at, Len(rows))

\* Array.prototype.sort((a, b) => a.name.localeCompare(b.name)), stable
RECURSIVE sortByName(_)
sortByName(rows) ==
    IF rows = <<>> THEN <<>>
    ELSE InsertByName(sortByName(SubSeq(rows, 1, Len(rows) - 1)), rows[Len(rows)])

\* The callback of filter() in getFilteredItems
matchesFilters(item, filters) ==
    LET query == filters.search
        matchesSearch ==
            \/ query = <<>>
            \/ includes(toLowerCase(item.name), query)
            \/ includes(toLowerCase(item.sku), query)
            \/ includes(toLowerCase(item.category), query)
    IN  IF ~matchesSearch THEN FALSE
        ELSE IF filters.status = "all" THEN TRUE
        ELSE filters.status = getItemStatus(item)

\* Array.prototype.filter: a new array of the matching items, in order
RECURSIVE filterItems(_, _)
filterItems(its, filters) ==
    IF its = <<>> THEN <<>>
    ELSE LET rest == filterItems(Tail(its), filters)
         IN  IF matchesFilters(Head(its), filters) THEN <<Head(its)>> \o rest ELSE rest

getFilteredItemsUnsorted(its, filters) == filterItems(its, filters)

getFilteredItems(its, filters) == sortByName(filterItems(its, filters))

\* state.items after getFilteredItems: filter() built a new array, and it is
\* that array which sort() orders in place.
itemsAfterQuery(its, filters) == its

RawNutLowX == RawItem(Str(<<"z">>), Str(TextNut), Str(<<"B", "1">>), Str(TextTools),
                      Num(Thou(1)), Num(Thou(1)), Num(Thou(1)), Num(Thou(1)), Num(Thou(1)))

QueryStoredInputs ==
    StoredInputs \cup {Json(Arr(<<RawWidgetX, RawNutLowX, RawNutY>>)),
                       Json(Arr(<<RawNutY, RawBolt, RawNutLowX>>))}

\* What the user types in the search box and picks in the status filter
SearchInputs ==
    {<<>>, <<"n", "u", "t">>, <<" ", "T", "O", "O", "L", "S", " ">>,
     <<"a", "-", "1">>, <<"z", "z">>, <<"W", "i", "d">>}
StatusInputs == {"all", "ok", "low"}

InitQuery ==
    /\ stored \in QueryStoredInputs
    /\ now = 1
    /\ items = loadItems(stored, now, 0)
    /\ nextId = LoadIdCalls(stored)
    /\ editingId = Null
    /\ formError = ""
    /\ formHint = ""
    /\ stats = renderStats(items)
    /\ wrote = FALSE
    /\ steps = 0
    /\ last = "init"
    /\ arg = [search |-> <<>>, status |-> "all"]
    /\ ret = getFilteredItems(items, arg)

HandleSearch(value) ==
    /\ arg' = [arg EXCEPT !.search = toLowerCase(normalizeText(Str(value)))]
    /\ ret' = getFilteredItems(items, arg')
    /\ items' = itemsAfterQuery(items, arg')
    /\ last' = "handleSearch"
    /\ UNCHANGED <<editingId, stored, formError, formHint, stats, now, nextId,
                   wrote, steps>>

HandleStatusFilter(value) ==
    /\ arg' = [arg EXCEPT !.status = value]
    /\ ret' = getFilteredItems(items, arg')
    /\ items' = itemsAfterQuery(items, arg')
    /\ last' = "handleStatusFilter"
    /\ UNCHANGED <<editingId, stored, formError, formHint, stats, now, nextId,
                   wrote, steps>>

NextQuery ==
    \/ \E value \in SearchInputs : HandleSearch(value)
    \/ \E value \in StatusInputs : HandleStatusFilter(value)

SpecQuery == InitQuery /\ [][NextQuery]_vars

(***************************************************************************)
(* Properties.                                                             *)
(***************************************************************************)
\* The index of the item being edited, 0 when there is none.
EditedIndex == IF editingId.t = "string" THEN FindIndex(items, editingId.s) ELSE 0

\* The rules of validation, stated on a payload.
RuleRequired(p) == p.name = <<>> \/ p.sku = <<>> \/ p.category = <<>>
RuleNumeric(p) == isNaN(p.quantity) \/ isNaN(p.minStock) \/ isNaN(p.price)
RuleInteger(p) == p.quantity.n % 1000 # 0 \/ p.minStock.n % 1000 # 0
RuleNegative(p) == p.quantity.n < 0 \/ p.minStock.n < 0 \/ p.price.n < 0
FailsValidation(p) ==
    \/ RuleRequired(p)
    \/ Len(p.name) > LimitName \/ Len(p.sku) > LimitSku \/ Len(p.category) > LimitCategory
    \/ RuleNumeric(p)
    \/ RuleInteger(p)
    \/ RuleNegative(p)

\* C1: no two items of state.items have the same sku, in every state
\* reachable from loadItems on any persisted data.
C1_SkuUnique ==
    \A i, j \in 1..Len(items) : i # j => items[i].sku # items[j].sku

\* C2: a submit of a valid form whose upper-cased sku is that of an item
\* other than the one being edited shows the SKU-exists error and leaves
\* state.items, the blob and editingId unchanged.
C2_DuplicateSkuRejected ==
    [][\A form \in FormInputs :
          LET p == getFormPayload(form)
          IN  (/\ HandleSubmit(form)
               /\ ~FailsValidation(p)
               /\ \E i \in 1..Len(items) : i # EditedIndex /\ items[i].sku = p.sku)
              => (/\ formError' = MsgDuplicatedSku
                  /\ UNCHANGED <<items, stored, editingId>>)]_vars

\* C3: adjustQuantity(id, diff) on an existing item leaves everything as it
\* is when quantity + diff < 0, and otherwise sets the quantity to
\* quantity + diff; no quantity is below 0 afterwards.
C3_AdjustNeverNegative ==
    [][\A id \in ClickIds, diff \in Deltas :
          LET index == FindIndex(items, id)
          IN  (AdjustQuantity(id, diff) /\ index # 0)
              => /\ \A i \in 1..Len(items') : items'[i].quantity >= 0
                 /\ IF items[index].quantity + diff < 0
                    THEN UNCHANGED <<items, stored>> /\ ~wrote'
                    ELSE /\ items'[index].quantity = items[index].quantity + diff
                         /\ Len(items') = Len(items)
                         /\ \A i \in 1..Len(items) :
                               i # index => items'[i] = items[i]]_vars

\* A diff of -100 was refused on an item, whose quantity is still 5.
C3_Witness ==
    /\ last = "adjustQuantity: below 0"
    /\ \E i \in 1..Len(items) : items[i].quantity = Thou(5)

\* C4: every price of state.items is non-negative and has at most 2
\* decimals.
C4_PriceTwoDecimals ==
    \A i \in 1..Len(items) : items[i].price >= 0 /\ items[i].price % 10 = 0

\* C5: after a create, update, remove or adjustQuantity, loading what
\* saveItems wrote gives back state.items.
C5_RoundTrip ==
    wrote => loadItems(saveItems(items), now, nextId) = items

\* C6: sanitizing the result of sanitizeLoadedItems on what localStorage
\* holds gives that result again, the clock and the id generator held fixed.
C6_SanitizeIdempotent ==
    (stored.t = "json" /\ ~SanitizeThrows(stored.v))
    => LET once == sanitizeLoadedItems(stored.v, now, nextId)
       IN  sanitizeLoadedItems(AsValue(once), now, nextId) = once

\* C7: validatePayload returns the message of the first rule that fails, in
\* the order required, length of name, of sku, of category, numeric,
\* integer, non-negative, and "" when none fails.
C7_FirstFailingRule ==
    ret.done =>
        LET p == getFormPayload(arg)
        IN  ret.msg =
              CASE RuleRequired(p) -> MsgRequired
                [] ~RuleRequired(p) /\ Len(p.name) > LimitName -> MsgNameLength
                [] ~RuleRequired(p) /\ Len(p.name) <= LimitName
                   /\ Len(p.sku) > LimitSku -> MsgSkuLength
                [] ~RuleRequired(p) /\ Len(p.name) <= LimitName
                   /\ Len(p.sku) <= LimitSku
                   /\ Len(p.category) > LimitCategory -> MsgCategoryLength
                [] OTHER ->
                     IF RuleNumeric(p) THEN MsgNumeric
                     ELSE IF RuleInteger(p) THEN MsgInteger
                     ELSE IF RuleNegative(p) THEN MsgNegative
                     ELSE ""

\* A payload with no name, a quantity that is no number and a negative
\* price got the required-field message.
C7_Witness ==
    /\ ret.done
    /\ getFormPayload(arg).name = <<>>
    /\ isNaN(getFormPayload(arg).quantity)
    /\ getFormPayload(arg).price.n < 0
    /\ ret.msg = MsgRequired

\* C8: a submit whose payload fails a rule of validation changes neither
\* state.items nor the blob nor editingId, writes nothing and shows a
\* message in the error line.
C8_InvalidSubmitNoMutation ==
    [][\A form \in FormInputs :
          (HandleSubmit(form) /\ FailsValidation(getFormPayload(form)))
          => (/\ UNCHANGED <<items, stored, editingId, stats, nextId>>
              /\ ~wrote'
              /\ formError' \notin {"", MsgDuplicatedSku})]_vars

\* In edit mode, on a collection that is not empty, a submit was refused for
\* a negative value.
C8_Witness ==
    /\ last = "submit: invalid"
    /\ formError = MsgNegative
    /\ EditedIndex # 0

\* C9: a submit that passes validation and the sku check, a confirmed
\* remove of an existing item and an adjustQuantity of an existing item that
\* stays at 0 or above each write the whole new collection; a handler that
\* refuses or finds no item writes nothing.
C9_WriteThrough ==
    [][/\ \A form \in FormInputs :
            HandleSubmit(form) =>
              IF \/ FailsValidation(getFormPayload(form))
                 \/ \E i \in 1..Len(items) :
                       /\ items[i].sku = getFormPayload(form).sku
                       /\ Str(items[i].id) # editingId
              THEN ~wrote' /\ stored' = stored
              ELSE wrote' /\ stored' = Json(Stringify(items'))
       /\ \A id \in ClickIds, confirmed \in BOOLEAN :
            RemoveItem(id, confirmed) =>
              IF FindIndex(items, id) = 0 \/ ~confirmed
              THEN ~wrote' /\ stored' = stored
              ELSE wrote' /\ stored' = Json(Stringify(items')) /\ items' # items
       /\ \A id \in ClickIds, diff \in Deltas :
            AdjustQuantity(id, diff) =>
              IF \/ FindIndex(items, id) = 0
                 \/ items[FindIndex(items, id)].quantity + diff < 0
              THEN ~wrote' /\ stored' = stored
              ELSE wrote' /\ stored' = Json(Stringify(items')) /\ items' # items
       /\ (CancelEdit \/ \E id \in ClickIds : StartEdit(id))
            => ~wrote' /\ stored' = stored]_vars

\* A remove wrote a collection that still holds an item, over a blob that
\* differed from it.
C9_Witness ==
    /\ last = "removeItem"
    /\ wrote
    /\ items # <<>>
    /\ stored = Json(Stringify(items))

\* C10: a submit in edit mode that is accepted replaces the six payload
\* fields of the item being edited and refreshes its updatedAt, leaving its
\* id, createdAt and position and every other item as they were; no handler
\* but removeItem changes an item's id or createdAt; updateItem with an id
\* no item has changes nothing.
C10_UpdateFrame ==
    [][/\ \A form \in FormInputs :
            LET p == getFormPayload(form)
            IN  (HandleSubmit(form) /\ editingId # Null /\ formError' = "")
                => /\ EditedIndex # 0
                   /\ items' = [items EXCEPT ![EditedIndex] =
                        [id |-> @.id, name |-> p.name, sku |-> p.sku,
                         category |-> p.category, quantity |-> p.quantity.n,
                         minStock |-> p.minStock.n, price |-> p.price.n,
                         createdAt |-> @.createdAt, updatedAt |-> DateNow(now)]]
       /\ last' # "removeItem" =>
            /\ Len(items') >= Len(items)
            /\ \A i \in 1..Len(items) :
                  /\ items'[i].id = items[i].id
                  /\ items'[i].createdAt = items[i].createdAt
       /\ \A form \in FormInputs :
            ~FailsValidation(getFormPayload(form)) =>
               updateItem(items, Str(<<"gone">>), getFormPayload(form), now) = items]_vars

\* C11: removeItem(id) on an existing id, the prompt answered yes, deletes
\* that one item and leaves every other item as it was, in the same order;
\* on an id no item has, or the prompt answered no, state.items, the blob
\* and editingId are unchanged.
C11_RemoveFrame ==
    [][\A id \in ClickIds, confirmed \in BOOLEAN :
          LET index == FindIndex(items, id)
          IN  RemoveItem(id, confirmed) =>
                IF index # 0 /\ confirmed
                THEN items' = [i \in 1..(Len(items) - 1) |->
                                  IF i < index THEN items[i] ELSE items[i + 1]]
                ELSE UNCHANGED <<items, stored, editingId>>]_vars

\* C12: sanitizeLoadedItems raises on no value localStorage can hold, an
\* array with null or primitive elements included, and returns the empty
\* sequence for a value that is no array.
C12_SanitizeNeverRaises ==
    stored.t = "json" =>
        /\ ~SanitizeThrows(stored.v)
        /\ stored.v.t # "array" => sanitizeLoadedItems(stored.v, now, nextId) = <<>>

\* The elements of a persisted array that have a name, a sku and a category
\* once normalized, and the k-th of them.
KeptElements(e) ==
    {i \in 1..Len(e) : /\ normalizeText(FieldsOf(e[i]).name) # <<>>
                       /\ normalizeText(FieldsOf(e[i]).sku) # <<>>
                       /\ normalizeText(FieldsOf(e[i]).category) # <<>>}
KthKept(e, k) ==
    CHOOSE i \in KeptElements(e) :
        Cardinality({j \in KeptElements(e) : j < i}) = k - 1
CoercedCount(v) == IF v.t = "number" /\ v.n >= 0 THEN v.n - (v.n % 1000) ELSE 0

\* C13: the collection loaded from a persisted array holds, in the array's
\* order, one item for each element whose name, sku and category are not
\* empty, with quantity and minStock coerced to a non-negative integer,
\* price to a non-negative value and the three texts normalized and
\* truncated, the sku upper-cased.
C13_SanitizeCoerces ==
    (last = "init" /\ stored.t = "json" /\ stored.v.t = "array") =>
        LET e == stored.v.e
        IN  /\ Len(items) = Cardinality(KeptElements(e))
            /\ \A k \in 1..Len(items) :
                  LET f == FieldsOf(e[KthKept(e, k)])
                  IN  /\ items[k].name = Slice(normalizeText(f.name), LimitName)
                      /\ items[k].sku = Slice(toUpperCase(normalizeText(f.sku)), LimitSku)
                      /\ items[k].category = Slice(normalizeText(f.category), LimitCategory)
                      /\ items[k].quantity = CoercedCount(f.quantity)
                      /\ items[k].minStock = CoercedCount(f.minStock)
                      /\ items[k].price >= 0
                      /\ (f.price.t # "number" \/ f.price.n < 0) => items[k].price = 0
                      /\ (f.price.t = "number" /\ f.price.n >= 0) =>
                            /\ items[k].price - f.price.n \in -5..5
                            /\ items[k].price % 10 = 0

\* C14: every item of state.items has updatedAt >= createdAt, in every
\* state reachable from loadItems on any persisted data, the clock never
\* going back.
C14_UpdatedAfterCreated ==
    \A i \in 1..Len(items) : items[i].updatedAt >= items[i].createdAt

\* C15: the ids of state.items are pairwise distinct, in every state
\* reachable from loadItems on any persisted data.
C15_IdsDistinct ==
    \A i, j \in 1..Len(items) : i # j => items[i].id # items[j].id

\* C16: every item of state.items has a name, a sku and a category that are
\* not empty and within LIMITS, a sku equal to its upper-cased form, and a
\* quantity and a minStock that are non-negative integers.
C16_ItemsWellFormed ==
    \A i \in 1..Len(items) :
        /\ Len(items[i].name) \in 1..LimitName
        /\ Len(items[i].sku) \in 1..LimitSku
        /\ Len(items[i].category) \in 1..LimitCategory
        /\ toUpperCase(items[i].sku) = items[i].sku
        /\ items[i].quantity >= 0 /\ items[i].quantity % 1000 = 0
        /\ items[i].minStock >= 0 /\ items[i].minStock % 1000 = 0

\* A collection holds a loaded item whose sku was cut at the limit and whose
\* quantity 2.5 was floored to 2, and an item a submit created from a
\* lower-case sku.
C16_Witness ==
    /\ last = "submit: createItem"
    /\ \E i \in 1..Len(items) :
          Len(items[i].sku) = LimitSku /\ items[i].quantity = Thou(2)
    /\ items[Len(items)].sku = <<"W", "D", "-", "1">>

\* The items, by position, that the search and the status filter let through
MatchesSearch(i) ==
    LET query == toLowerCase(arg.search)
    IN  \/ arg.search = <<>>
        \/ includes(toLowerCase(items[i].name), query)
        \/ includes(toLowerCase(items[i].sku), query)
        \/ includes(toLowerCase(items[i].category), query)
MatchesStatus(i) ==
    \/ arg.status = "all"
    \/ arg.status = "low" /\ items[i].quantity <= items[i].minStock
    \/ arg.status = "ok" /\ items[i].quantity > items[i].minStock
Matching == {i \in 1..Len(items) : MatchesSearch(i) /\ MatchesStatus(i)}

\* C17: the rows drawn are exactly the items that match the search and the
\* status filter, each once, ordered by name with equal names in the order
\* of state.items, and state.items is still the collection that was loaded;
\* with no search and status all every item is drawn, with no search and
\* status low exactly the items with quantity <= minStock.
C17_FilteredItems ==
    /\ \E p \in [1..Len(ret) -> 1..Len(items)] :
          /\ \A k \in 1..Len(ret) : p[k] \in Matching /\ ret[k] = items[p[k]]
          /\ \A i \in Matching : \E k \in 1..Len(ret) : p[k] = i
          /\ \A k, l \in 1..Len(ret) :
                k < l => /\ p[k] # p[l]
                         /\ localeCompare(ret[k].name, ret[l].name) <= 0
                         /\ ret[k].name = ret[l].name => p[k] < p[l]
    /\ items = loadItems(stored, 1, 0)
    /\ (arg.search = <<>> /\ arg.status = "all") => Len(ret) = Len(items)
    /\ (arg.search = <<>> /\ arg.status = "low") =>
          Len(ret) = Cardinality({i \in 1..Len(items) :
                                     items[i].quantity <= items[i].minStock})

C17_Witness ==
    /\ last = "handleSearch"
    /\ arg.search = <<"n", "u", "t">>
    /\ Len(items) = 3
    /\ Len(ret) = 2
    /\ ret[1].name = ret[2].name
    /\ ret[1] = items[1]
    /\ ret[2] = items[3]

\* The units and the value of the first n items of the collection
RECURSIVE UnitsUpTo(_)
UnitsUpTo(n) == IF n = 0 THEN 0 ELSE UnitsUpTo(n - 1) + items[n].quantity
RECURSIVE ValueUpTo(_)
ValueUpTo(n) ==
    IF n = 0 THEN 0
    ELSE ValueUpTo(n - 1) + (items[n].quantity * items[n].price) \div 1000

\* C18: the statistics on display are the summary of the current collection:
\* the number of items, the sum of their quantities, the number of items
\* with quantity <= minStock and the sum of quantity * price; this holds
\* after loading and after every mutation.
C18_StatsSummary ==
    /\ stats.totalProducts = Len(items)
    /\ stats.totalUnits = UnitsUpTo(Len(items))
    /\ stats.lowStock =
          Cardinality({i \in 1..Len(items) : items[i].quantity <= items[i].minStock})
    /\ stats.totalValue = ValueUpTo(Len(items))

C18_Witness ==
    /\ last \in {"submit: createItem", "adjustQuantity"}
    /\ Len(items) >= 2
    /\ \E i \in 1..Len(items) : items[i].quantity = items[i].minStock
    /\ \E i \in 1..Len(items) : items[i].quantity > items[i].minStock
    /\ stats.lowStock >= 1
    /\ stats.totalValue > 0

\* The stored blobs loading cannot turn into items
Unreadable(raw) ==
    \/ raw.t \in {"absent", "garbage"}
    \/ raw.v.t # "array"
    \/ SanitizeThrows(raw.v)

EditingIdOf(eid, its) ==
    eid = Null \/ (eid.t = "string" /\ \E i \in 1..Len(its) : its[i].id = eid.s)

\* What the handlers do to editingId: startEdit sets it to an existing
\* item's id, a removal resets it when it removed the item being edited and
\* keeps it otherwise, an adjustment keeps it, a successful submit and a
\* cancel reset it.
EditingIdSteps ==
    /\ \A id \in ClickIds :
          StartEdit(id) =>
             IF \E i \in 1..Len(items) : items[i].id = id
             THEN editingId' = Str(id)
             ELSE editingId' = editingId
    /\ \A id \in ClickIds, confirmed \in BOOLEAN :
          RemoveItem(id, confirmed) =>
             IF items' # items /\ editingId = Str(id)
             THEN editingId' = Null
             ELSE editingId' = editingId
    /\ \A id \in ClickIds, diff \in Deltas :
          AdjustQuantity(id, diff) => editingId' = editingId
    /\ \A form \in FormInputs :
          (HandleSubmit(form) /\ formError' = "") => editingId' = Null
    /\ CancelEdit => editingId' = Null

\* A submit in edit mode that passes validation and the sku test replaces
\* the item editingId names.
SubmitFindsTarget ==
    \A form \in FormInputs :
        (HandleSubmit(form) /\ editingId # Null /\ formError' = "") =>
            /\ EditedIndex # 0
            /\ Len(items') = Len(items)
            /\ items'[EditedIndex].id = editingId.s
            /\ items'[EditedIndex].name = getFormPayload(form).name
            /\ items'[EditedIndex].updatedAt = DateNow(now)

\* C20: editingId is always null or the id of an item of the collection,
\* every handler treats it as described, and a submit in edit mode finds
\* and replaces its target item.
C20_EditingIdTracksItem ==
    [][/\ EditingIdOf(editingId', items')
       /\ EditingIdSteps
       /\ SubmitFindsTarget]_vars

====
